---- MODULE Spec2Model ----
(***************************************************************************)
(* Model of vite-plugin-auto-deploy (src/src/index.ts): option             *)
(* normalisation, the confirmation prompt, the closeBundle deploy pipeline *)
(* (backup, then transfer) and the rollback pipeline (list, pick, restore).*)
(*                                                                         *)
(* JavaScript values are modelled as sequences of tokens.  A string is the *)
(* sequence of its pieces (characters for prompt answers and command       *)
(* output, whole words for configuration values), so that template         *)
(* strings are concatenations; the non-string values undefined, true and   *)
(* false, and the absence of a property, are reserved one-token sequences. *)
(***************************************************************************)
EXTENDS Integers, Sequences, FiniteSets, TLC

\* ------------------------------------------------------------------ bounds
\* Instants of the deploying machine's clock are 0..MaxClock.
MaxClock == 3
\* Prompt answers are all character sequences of at most this length.
MaxAnswerLen == 3
\* Clock instants per second: toISOString().slice(0, 19) drops the fraction.
TicksPerSecond == 2

\* -------------------------------------------------------------- JS values
ABSENT == <<"<absent>">>
UNDEF == <<"<undefined>">>
JsTrue == <<"<true>">>
JsFalse == <<"<false>">>
Null == <<"<null>">>

\* !v
Falsy(v) == v \in {ABSENT, UNDEF, Null, JsFalse, <<>>}

\* obj.key: reading a property that is not there yields undefined
Get(obj, key) == IF obj[key] = ABSENT THEN UNDEF ELSE obj[key]

\* a ?? b
Coalesce(a, b) == IF a \in {UNDEF, Null} THEN b ELSE a

\* a || b
OrElse(a, b) == IF Falsy(a) THEN b ELSE a

\* `${v}` inside a template string
Interp(v) == IF v = UNDEF THEN <<"undefined">> ELSE v

OptionKeys ==
  {"remoteUser", "remoteIp", "remotePort", "remoteDir", "backupDir",
   "privateKey", "transport", "localDist", "autoConfirm"}

\* ------------------------------------------------------- normalizeOptions
\* The two guards at the head of normalizeOptions.
MissingRequired_onlyIp(options) == Falsy(Get(options, "remoteIp"))

MissingRequired(options) ==
  Falsy(Get(options, "remoteIp")) \/ Falsy(Get(options, "remoteDir"))

\* The defaults object literal, before `...options` is spread over it.
Defaults(options) ==
  [k \in OptionKeys |->
     CASE k = "remoteUser" -> Coalesce(Get(options, "remoteUser"), <<"root">>)
       [] k = "remotePort" -> Coalesce(Get(options, "remotePort"), <<"22">>)
       [] k = "transport" -> Coalesce(Get(options, "transport"), <<"scp">>)
       [] k = "backupDir" ->
            Coalesce(Get(options, "backupDir"),
                     Interp(Get(options, "remoteDir")) \o <<"_backups">>)
       [] k = "localDist" -> Coalesce(Get(options, "localDist"), <<"dist">>)
       [] k = "autoConfirm" -> Coalesce(Get(options, "autoConfirm"), JsFalse)
       [] OTHER -> ABSENT]

\* { ...defaults, ...options }: every own property of options, whatever its
\* value, replaces the property of the same name.
Spread(base, over) ==
  [k \in OptionKeys |-> IF over[k] # ABSENT THEN over[k] ELSE base[k]]

NoConfig == [k \in OptionKeys |-> ABSENT]

\* threw: normalizeOptions raised its missing-field Error; value: what it
\* returned otherwise.
normalizeOptions(options) ==
  [threw |-> MissingRequired(options),
   value |-> IF MissingRequired(options) THEN NoConfig
             ELSE Spread(Defaults(options), options)]

\* ------------------------------------------------------ askForConfirmation
\* process.stdin.isTTY && process.stdout.isTTY
isTTY_stdinOnly(tty) == tty.stdin

isTTY(tty) == tty.stdin /\ tty.stdout

Whitespace == {" ", "\t", "\n"}

RECURSIVE TrimStart(_)
TrimStart(s) ==
  IF s # <<>> /\ Head(s) \in Whitespace THEN TrimStart(Tail(s)) ELSE s

RECURSIVE TrimEnd(_)
TrimEnd(s) ==
  IF s # <<>> /\ s[Len(s)] \in Whitespace
  THEN TrimEnd(SubSeq(s, 1, Len(s) - 1)) ELSE s

\* String.prototype.trim
Trim(s) == TrimEnd(TrimStart(s))

\* Case folding of the i flag, on the characters the model types.
Lower(c) ==
  CASE c = "Y" -> "y" [] c = "E" -> "e" [] c = "S" -> "s" [] c = "N" -> "n"
    [] OTHER -> c

\* /^y(es)?$/i.test(s)
TestYes_prefix(s) == Len(s) >= 1 /\ Lower(s[1]) = "y"

TestYes(s) ==
  \/ Len(s) = 1 /\ Lower(s[1]) = "y"
  \/ Len(s) = 3 /\ Lower(s[1]) = "y" /\ Lower(s[2]) = "e" /\ Lower(s[3]) = "s"

\* The value the question callback resolves the promise with.
Affirmative(answer) == TestYes(Trim(answer))

\* config.autoConfirm !== true
needsConfirmation_always(cfg) == TRUE

needsConfirmation(cfg) == Get(cfg, "autoConfirm") # JsTrue

\* ------------------------------------------------------------- closeBundle
\* new Date().toISOString().replace(/[:T.]/g, '-').slice(0, 19)
FormatTimestamp(now) == <<ToString(now \div TicksPerSecond)>>

\* `${config.backupDir}/${timestamp}_backup.tar.gz`
BackupFile(cfg, timestamp) ==
  Interp(Get(cfg, "backupDir")) \o <<"/">> \o timestamp \o <<"_backup.tar.gz">>

\* The ssh "mkdir -p ... && tar -zcvf ..." command.
BackupCmd(cfg, backupFile) ==
  [kind |-> "backup", prog |-> "ssh", arg |-> backupFile]

\* transferCmd: scp or rsync of ./${buildOutputDir}; it stays '' for any
\* other transport value.
TransferCmd(cfg, dir) ==
  IF Get(cfg, "transport") = <<"scp">>
  THEN [kind |-> "transfer", prog |-> "scp", arg |-> <<"./">> \o Interp(dir)]
  ELSE IF Get(cfg, "transport") = <<"rsync">>
  THEN [kind |-> "transfer", prog |-> "rsync", arg |-> <<"./">> \o Interp(dir)]
  ELSE [kind |-> "empty", prog |-> "", arg |-> <<>>]

Ran(cmd, ok) ==
  [kind |-> cmd.kind, prog |-> cmd.prog, arg |-> cmd.arg, ok |-> ok]

\* The execSync calls the try block makes, in order, with their outcomes:
\* a failing execSync throws and ends the block.
tryDeploy_noAbort(backupCmd, transferCmd, backupOk, transferOk) ==
  <<Ran(backupCmd, backupOk), Ran(transferCmd, transferOk)>>

tryDeploy(backupCmd, transferCmd, backupOk, transferOk) ==
  IF backupOk
  THEN <<Ran(backupCmd, TRUE), Ran(transferCmd, transferOk)>>
  ELSE <<Ran(backupCmd, FALSE)>>

\* ---------------------------------------------------------- remote server
\* tar -zcvf writes the archive: it becomes the most recently modified file.
Touch(files, f) == <<f>> \o SelectSeq(files, LAMBDA x : x # f)

\* Output of `ls -t ${backupDir}/*.tar.gz`: one path per line, most recently
\* modified first.
RECURSIVE LsT(_)
LsT(files) ==
  IF files = <<>> THEN <<>> ELSE Head(files) \o <<"\n">> \o LsT(Tail(files))

\* ---------------------------------------------------------------- rollback
RECURSIVE SplitLines(_, _)
SplitLines(s, cur) ==
  IF s = <<>> THEN <<cur>>
  ELSE IF Head(s) = "\n" THEN <<cur>> \o SplitLines(Tail(s), <<>>)
  ELSE SplitLines(Tail(s), Append(cur, Head(s)))

\* backupsOutput.trim().split('\n').filter(Boolean)
ParseBackups_noFilter(output) == SplitLines(Trim(output), <<>>)

ParseBackups(output) ==
  SelectSeq(SplitLines(Trim(output), <<>>), LAMBDA line : line # <<>>)

\* backups[0]
targetBackup_last(backups) == backups[Len(backups)]

targetBackup(backups) == backups[1]

ListCmd(cfg) ==
  [kind |-> "list", prog |-> "ssh", arg |-> Interp(Get(cfg, "backupDir"))]

RestoreCmd(cfg, target) == [kind |-> "restore", prog |-> "ssh", arg |-> target]

\* ------------------------------------------------------------------- state
VARIABLES
  options,         \* the options object of the project's vite config
  tty,             \* process.stdin.isTTY / process.stdout.isTTY
  config,          \* viteAutoDeploy's normalized config
  resolvedConfig,  \* viteAutoDeploy's resolvedConfig
  buildOutputDir,  \* viteAutoDeploy's buildOutputDir
  pc,              \* "none", "plugin", "prompt" (rl.question pending), "exited"
  prompted,        \* rl.question was called by the current handler run
  answer,          \* the line the operator entered at that prompt
  cmds,            \* execSync calls of the current handler run, in order
  exitCode,        \* status the process terminated with, NoExit while it has not
  error,           \* the error the current handler run raised
  outcome,         \* how the current handler run ended
  remoteBackups,   \* archives under backupDir, most recently modified first
  lastArchive      \* the archive written last, and whether its deploy succeeded

vars ==
  <<options, tty, config, resolvedConfig, buildOutputDir, pc, prompted, answer,
    cmds, exitCode, error, outcome, remoteBackups, lastArchive>>

NoExit == 0 - 1
NoAnswer == <<"<none>">>
NullResolved == [command |-> Null, outDir |-> Null]
Clock == 0 .. MaxClock

\* An options object literal; ABSENT leaves the property out.
Opt(ip, dir, user, port, bdir, key, transport, dist, auto) ==
  [k \in OptionKeys |->
     CASE k = "remoteIp" -> ip [] k = "remoteDir" -> dir
       [] k = "remoteUser" -> user [] k = "remotePort" -> port
       [] k = "backupDir" -> bdir [] k = "privateKey" -> key
       [] k = "transport" -> transport [] k = "localDist" -> dist
       [] k = "autoConfirm" -> auto]

\* The configurations of the deploy and rollback runs.
DeployOptions ==
  {Opt(ip, dir, ABSENT, ABSENT, bdir, ABSENT, transport, dist, auto) :
     ip \in {ABSENT, UNDEF, <<>>, <<"1.2.3.4">>},
     dir \in {ABSENT, UNDEF, <<>>, <<"/var/www/app">>},
     bdir \in {ABSENT, <<"/srv/bk">>},
     transport \in {ABSENT, <<"rsync">>, <<"ftp">>},
     dist \in {ABSENT, <<>>, <<"out">>},
     auto \in {ABSENT, JsTrue, JsFalse}}

TTYs == [stdin : BOOLEAN, stdout : BOOLEAN]

\* What vite hands to configResolved: the command and build.outDir.
ResolvedConfigs ==
  [command : {<<"build">>, <<"serve">>}, outDir : {UNDEF, <<"build">>}]

Alphabet == {"y", "Y", "e", "s", "n", " "}

RECURSIVE SeqsUpTo(_, _)
SeqsUpTo(S, n) ==
  IF n = 0 THEN {<<>>}
  ELSE LET shorter == SeqsUpTo(S, n - 1)
       IN shorter \cup {Append(q, c) : q \in shorter, c \in S}

\* The answers of the documentation's worked examples, and letter-case and
\* whitespace variants of them.
ExampleAnswers ==
  {<<>>, <<"y">>, <<"Y">>, <<"y", "e", "s">>, <<"Y", "E", "S">>, <<"n">>,
   <<"n", "o">>, <<"m", "a", "y", "b", "e">>, <<" ", "y", "e", "s", " ">>,
   <<"y", "E", "s">>, <<"y", "e", "S">>, <<"\t", "Y", "\n">>,
   <<"y", "e", "s", "\n", "n">>}

\* The answers of the deploy runs.
SampleAnswers == {<<>>, <<"n">>, <<"y">>, <<"y", "e", "s">>}

AllAnswers == ExampleAnswers \cup SeqsUpTo(Alphabet, MaxAnswerLen)

InitRun ==
  /\ tty = [stdin |-> FALSE, stdout |-> FALSE]
  /\ config = NoConfig
  /\ resolvedConfig = NullResolved
  /\ buildOutputDir = UNDEF
  /\ pc = "none"
  /\ prompted = FALSE
  /\ answer = NoAnswer
  /\ cmds = <<>>
  /\ exitCode = NoExit
  /\ error = "none"
  /\ outcome = "none"
  /\ remoteBackups = <<>>
  /\ lastArchive = [file |-> <<>>, deployed |-> FALSE]

Init == options \in DeployOptions /\ InitRun

\* -------------------------------------------------------------- operations
\* export default function viteAutoDeploy(options): a vite process loads the
\* config file, which constructs the plugin.
viteAutoDeploy ==
  /\ pc # "prompt"
  /\ \E t \in TTYs : tty' = t
  /\ LET n == normalizeOptions(options)
     IN /\ config' = n.value
        /\ buildOutputDir' = Get(n.value, "localDist")
        /\ pc' = IF n.threw THEN "exited" ELSE "plugin"
        /\ exitCode' = IF n.threw THEN 1 ELSE NoExit
        /\ error' = IF n.threw THEN "ConfigError" ELSE "none"
  /\ resolvedConfig' = NullResolved
  /\ prompted' = FALSE
  /\ answer' = NoAnswer
  /\ cmds' = <<>>
  /\ outcome' = "none"
  /\ UNCHANGED <<options, remoteBackups, lastArchive>>

\* configResolved(resolved)
configResolved ==
  /\ pc = "plugin"
  /\ resolvedConfig = NullResolved
  /\ \E resolved \in ResolvedConfigs :
       /\ resolvedConfig' = resolved
       /\ buildOutputDir' =
            OrElse(Get(config, "localDist"), OrElse(resolved.outDir, <<"dist">>))
  /\ prompted' = FALSE
  /\ answer' = NoAnswer
  /\ cmds' = <<>>
  /\ outcome' = "none"
  /\ UNCHANGED <<options, tty, config, pc, exitCode, error, remoteBackups,
                 lastArchive>>

\* The try block of closeBundle and its catch: backup, transfer, report.
Deploy ==
  \E now \in Clock, backupOk \in BOOLEAN, transferOk \in BOOLEAN :
    LET backupFile == BackupFile(config, FormatTimestamp(now))
        ran == tryDeploy(BackupCmd(config, backupFile),
                         TransferCmd(config, buildOutputDir),
                         backupOk, transferOk)
        threw == \E i \in 1 .. Len(ran) : ~ran[i].ok
        archived == \E i \in 1 .. Len(ran) : ran[i].kind = "backup" /\ ran[i].ok
    IN /\ cmds' = ran
       /\ remoteBackups' =
            IF archived THEN Touch(remoteBackups, backupFile) ELSE remoteBackups
       /\ lastArchive' =
            IF archived THEN [file |-> backupFile, deployed |-> ~threw]
            ELSE lastArchive
       /\ outcome' = IF threw THEN "failed" ELSE "deployed"
       /\ error' = IF threw THEN "RemoteCommandError" ELSE "none"
       /\ exitCode' = IF threw THEN 1 ELSE NoExit
       /\ pc' = IF threw THEN "exited" ELSE "plugin"

\* async closeBundle(), up to its return or to the pending rl.question.
closeBundle ==
  /\ pc = "plugin"
  /\ answer' = NoAnswer
  /\ IF resolvedConfig = NullResolved \/ resolvedConfig.command # <<"build">>
     THEN /\ outcome' = "ignored"
          /\ prompted' = FALSE
          /\ cmds' = <<>>
          /\ UNCHANGED <<pc, exitCode, error, remoteBackups, lastArchive>>
     ELSE IF needsConfirmation(config)
     THEN IF ~isTTY(tty)
          THEN /\ outcome' = "cancelled"
               /\ prompted' = FALSE
               /\ cmds' = <<>>
               /\ UNCHANGED <<pc, exitCode, error, remoteBackups, lastArchive>>
          ELSE /\ outcome' = "pending"
               /\ prompted' = TRUE
               /\ pc' = "prompt"
               /\ cmds' = <<>>
               /\ UNCHANGED <<exitCode, error, remoteBackups, lastArchive>>
     ELSE /\ prompted' = FALSE
          /\ Deploy
  /\ UNCHANGED <<options, tty, config, resolvedConfig, buildOutputDir>>

\* The rl.question callback and the rest of closeBundle after the await.
question(line) ==
  /\ pc = "prompt"
  /\ answer' = line
  /\ IF Affirmative(line)
     THEN Deploy
     ELSE /\ outcome' = "cancelled"
          /\ pc' = "plugin"
          /\ UNCHANGED <<cmds, exitCode, error, remoteBackups, lastArchive>>
  /\ UNCHANGED <<options, tty, config, resolvedConfig, buildOutputDir, prompted>>

\* export async function rollback(options): the vite-deploy rollback process.
rollback ==
  /\ pc # "prompt"
  /\ LET n == normalizeOptions(options)
     IN IF n.threw
        THEN /\ cmds' = <<>>
             /\ error' = "ConfigError"
             /\ outcome' = "failed"
             /\ exitCode' = 1
        ELSE \E listOk \in BOOLEAN, restoreOk \in BOOLEAN :
               LET list == ListCmd(n.value)
                   backups == ParseBackups(LsT(remoteBackups))
               IN IF ~listOk
                  THEN /\ cmds' = <<Ran(list, FALSE)>>
                       /\ error' = "RemoteCommandError"
                       /\ outcome' = "failed"
                       /\ exitCode' = 1
                  ELSE IF Len(backups) = 0
                  THEN /\ cmds' = <<Ran(list, TRUE)>>
                       /\ error' = "NoBackupsError"
                       /\ outcome' = "failed"
                       /\ exitCode' = 1
                  ELSE /\ cmds' =
                            <<Ran(list, TRUE),
                              Ran(RestoreCmd(n.value, targetBackup(backups)),
                                  restoreOk)>>
                       /\ error' = IF restoreOk THEN "none" ELSE "RemoteCommandError"
                       /\ outcome' = IF restoreOk THEN "rolledback" ELSE "failed"
                       /\ exitCode' = IF restoreOk THEN 0 ELSE 1
  /\ pc' = "exited"
  /\ config' = NoConfig
  /\ resolvedConfig' = NullResolved
  /\ buildOutputDir' = UNDEF
  /\ prompted' = FALSE
  /\ answer' = NoAnswer
  /\ UNCHANGED <<options, tty, remoteBackups, lastArchive>>

Next ==
  \/ viteAutoDeploy
  \/ configResolved
  \/ closeBundle
  \/ \E line \in SampleAnswers : question(line)
  \/ rollback

Spec == Init /\ [][Next]_vars

\* Only the prompt differs: the operator may type any line.
GateOptions ==
  {Opt(<<"1.2.3.4">>, <<"/var/www/app">>, ABSENT, ABSENT, ABSENT, ABSENT,
       ABSENT, ABSENT, auto) : auto \in {JsFalse}}

InitGate == options \in GateOptions /\ InitRun

NextGate ==
  \/ viteAutoDeploy
  \/ configResolved
  \/ closeBundle
  \/ \E line \in AllAnswers : question(line)
  \/ rollback

SpecGate == InitGate /\ [][NextGate]_vars

\* Normalisation alone, over every way of supplying the optional fields.
NormOptions ==
  {Opt(ip, dir, user, port, bdir, key, transport, dist, auto) :
     ip \in {<<>>, <<"1.2.3.4">>},
     dir \in {ABSENT, <<"/var/www/app">>},
     user \in {ABSENT, UNDEF, <<"deploy">>},
     port \in {ABSENT, UNDEF, <<"2222">>},
     bdir \in {ABSENT, UNDEF, <<"/srv/bk">>},
     key \in {ABSENT, <<"~/.ssh/id_rsa">>},
     transport \in {ABSENT, UNDEF, <<"rsync">>},
     dist \in {ABSENT, UNDEF, <<"out">>},
     auto \in {ABSENT, UNDEF, JsTrue}}

InitNorm == options \in NormOptions /\ InitRun

NextNorm ==
  \/ viteAutoDeploy
  \/ rollback

SpecNorm == InitNorm /\ [][NextNorm]_vars

\* ------------------------------------------------------------------ claims
Kinds(k) == {i \in 1 .. Len(cmds) : cmds[i].kind \in k}

\* C1: in a closeBundle run the transfer command is executed only after the
\* backup-creation command of that run was executed and succeeded; when the
\* backup command fails the run is aborted (failure, exit status 1) and no
\* transfer command is executed.
C1_BackupBeforeTransfer ==
  /\ \A i \in Kinds({"transfer", "empty"}) :
       \E j \in Kinds({"backup"}) : j < i /\ cmds[j].ok
  /\ \A j \in Kinds({"backup"}) :
       ~cmds[j].ok =>
         /\ Kinds({"transfer", "empty"}) = {}
         /\ outcome = "failed"
         /\ exitCode = 1
         /\ pc = "exited"

C1_Witness ==
  /\ Len(cmds) = 1
  /\ cmds[1].kind = "backup"
  /\ ~cmds[1].ok
  /\ outcome = "failed"

\* C2: when rollback issues its restore command, it issues exactly one, and
\* its target is the archive written by the most recent deploy, which is
\* entry 0 of the newest-first listing, whatever the archives' names are.
C2_RestoreNewest ==
  Kinds({"restore"}) # {} =>
    /\ Cardinality(Kinds({"restore"})) = 1
    /\ remoteBackups # <<>>
    /\ \A i \in Kinds({"restore"}) :
         /\ cmds[i].arg = lastArchive.file
         /\ cmds[i].arg = remoteBackups[1]

C2_Witness ==
  /\ Kinds({"restore"}) # {}
  /\ Len(remoteBackups) >= 2
  /\ lastArchive.deployed
  /\ outcome = "rolledback"

\* A constructed plugin whose autoConfirm is true.
Unattended == config # NoConfig /\ Get(config, "autoConfirm") = JsTrue

\* A constructed plugin whose autoConfirm is not true.
Attended == config # NoConfig /\ Get(config, "autoConfirm") # JsTrue

\* C3: with autoConfirm not true and stdin or stdout not a terminal, the
\* prompt is never invoked and closeBundle returns without executing any
\* remote command and without terminating the process.
C3_NonInteractiveSkips ==
  (Attended /\ ~(tty.stdin /\ tty.stdout)) =>
    /\ ~prompted
    /\ pc = "plugin"
    /\ cmds = <<>>
    /\ exitCode = NoExit
    /\ outcome \in {"none", "ignored", "cancelled"}

C3_Witness ==
  /\ Attended
  /\ tty.stdin /\ ~tty.stdout
  /\ resolvedConfig # NullResolved
  /\ resolvedConfig.command = <<"build">>
  /\ outcome = "cancelled"

\* C4: with autoConfirm true the prompt is never invoked, and every
\* closeBundle run of a production build goes on to the deployment (its
\* backup command is executed), interactive environment or not.
C4_AutoConfirmDeploys ==
  Unattended =>
    /\ ~prompted
    /\ pc # "prompt"
    /\ (outcome # "none" /\ resolvedConfig.command = <<"build">>) =>
         /\ outcome \in {"deployed", "failed"}
         /\ cmds # <<>>
         /\ cmds[1].kind = "backup"

C4_Witness ==
  /\ Unattended
  /\ ~tty.stdin
  /\ outcome = "deployed"

\* The lines that are "y" or "yes" in any letter case.
YesWords ==
  {<<a>> : a \in {"y", "Y"}}
    \cup {<<a, b, c>> : a \in {"y", "Y"}, b \in {"e", "E"}, c \in {"s", "S"}}

\* line is a member of YesWords with whitespace around it.
IsYes(line) ==
  \E a \in 0 .. Len(line), b \in 0 .. Len(line) :
    /\ a + b <= Len(line)
    /\ \A i \in 1 .. a : line[i] \in Whitespace
    /\ \A i \in (Len(line) - b + 1) .. Len(line) : line[i] \in Whitespace
    /\ SubSeq(line, a + 1, Len(line) - b) \in YesWords

\* C5: at the prompt the deployment proceeds if and only if the answer,
\* trimmed, is "y" or "yes" in any letter case; every other answer cancels
\* and no remote command is executed.
C5_AnswerDecides ==
  (prompted /\ answer # NoAnswer) =>
    /\ IsYes(answer) <=> outcome \in {"deployed", "failed"}
    /\ IsYes(answer) => (cmds # <<>> /\ cmds[1].kind = "backup")
    /\ ~IsYes(answer) => (outcome = "cancelled" /\ cmds = <<>> /\ pc = "plugin")
    /\ answer \in {<<"y">>, <<"Y">>, <<"y", "e", "s">>, <<"Y", "E", "S">>}
         => outcome \in {"deployed", "failed"}
    /\ answer \in {<<>>, <<"n">>, <<"n", "o">>, <<"m", "a", "y", "b", "e">>}
         => outcome = "cancelled"

C5_Witness ==
  /\ prompted
  /\ answer = <<" ", "Y", " ">>
  /\ outcome = "deployed"

\* C6: when the listing rollback obtains is empty, rollback fails with the
\* no-backups error and executes no restore command.
C6_EmptyListingFails ==
  (/\ cmds # <<>>
   /\ cmds[1].kind = "list"
   /\ cmds[1].ok
   /\ remoteBackups = <<>>) =>
    /\ error = "NoBackupsError"
    /\ exitCode = 1
    /\ outcome = "failed"
    /\ Kinds({"restore"}) = {}

C6_Witness ==
  /\ cmds # <<>>
  /\ cmds[1].kind = "list"
  /\ cmds[1].ok
  /\ error = "NoBackupsError"

\* C7: a transport other than scp and rsync is rejected when the plugin is
\* constructed: no plugin exists, no remote command is executed and no
\* deployment is reported as successful.
C7_UnknownTransportRejected ==
  Get(options, "transport") \notin {UNDEF, <<"scp">>, <<"rsync">>} =>
    /\ config = NoConfig
    /\ Kinds({"backup", "transfer", "empty"}) = {}
    /\ outcome # "deployed"

\* The local source the documentation gives the transfer; an empty localDist
\* counts as none configured.
DocumentedSource ==
  IF ~Falsy(options["localDist"]) THEN options["localDist"]
  ELSE IF resolvedConfig.outDir # UNDEF THEN resolvedConfig.outDir
  ELSE <<"dist">>

\* C8: the transfer's local source is the configured localDist when there is
\* one, else the build.outDir vite resolved, else "dist".
C8_TransferSource ==
  \A i \in Kinds({"transfer"}) : cmds[i].arg = <<"./">> \o DocumentedSource

\* C9: when remoteIp or remoteDir is missing or empty, constructing the
\* plugin and calling rollback both fail with a configuration error and no
\* remote command is executed.
C9_MissingRequiredFails ==
  (\/ options["remoteIp"] \in {ABSENT, UNDEF, <<>>}
   \/ options["remoteDir"] \in {ABSENT, UNDEF, <<>>}) =>
    /\ config = NoConfig
    /\ cmds = <<>>
    /\ pc \in {"none", "exited"}
    /\ pc = "exited" => (error = "ConfigError" /\ exitCode = 1)

C9_Witness ==
  /\ Falsy(Get(options, "remoteDir"))
  /\ ~Falsy(Get(options, "remoteIp"))
  /\ error = "ConfigError"
  /\ outcome = "failed"

\* The documented default of each optional field.
DocumentedDefault(k) ==
  CASE k = "remoteUser" -> <<"root">>
    [] k = "remotePort" -> <<"22">>
    [] k = "transport" -> <<"scp">>
    [] k = "backupDir" -> options["remoteDir"] \o <<"_backups">>
    [] k = "localDist" -> <<"dist">>
    [] k = "autoConfirm" -> JsFalse

\* C10: with remoteIp and remoteDir set, the normalized record has remoteUser,
\* remotePort, transport, backupDir, localDist and autoConfirm all populated:
\* the caller's value where one was supplied, the default otherwise.
C10_AllPopulated ==
  config # NoConfig =>
    \A k \in {"remoteUser", "remotePort", "transport", "backupDir", "localDist",
              "autoConfirm"} :
      /\ config[k] \notin {ABSENT, UNDEF}
      /\ options[k] \notin {ABSENT, UNDEF} => config[k] = options[k]
      /\ options[k] = ABSENT => config[k] = DocumentedDefault(k)

====
